---- MODULE Spec2Model ----
(***************************************************************************)
(* pquerna/cachecontrol: the cacheability decision and explicit            *)
(* expiration computed by calcReasons (reasons.go) for one request /       *)
(* response pair.                                                          *)
(*                                                                         *)
(* A Cache-Control header value is the sequence of its lexemes: directives, *)
(* each a name with an optional argument, and the separators (space, tab,  *)
(* comma) written between them.  A date-bearing header (Expires, Date,       *)
(* Last-Modified) is absent (Header.Get returns ""), present with text     *)
(* that is no HTTP date, or present with a date (seconds, Unix epoch).     *)
(* An instant (time.Time) is tagged: the zero instant time.Time{}, a Unix  *)
(* second count, or a Unix second count pushed to the saturated Duration.  *)
(***************************************************************************)
EXTENDS Integers, Sequences, FiniteSets, TLC

VARIABLES req, statusCode, respHeaders, opts, clock, pc,
          now, outReasons, outExpires, outErr, first, header, cd

vars == <<req, statusCode, respHeaders, opts, clock, pc,
          now, outReasons, outExpires, outErr, first, header, cd>>

----------------------------------------------------------------------------
(* Bounds of the model                                                     *)

\* largest delta-seconds argument of max-age / s-maxage that Init draws
MaxDelta == 1
\* the wall clock may advance by up to MaxTick seconds between two reads
MaxTick == 1
\* the wall clock (Unix seconds) when the evaluation starts
Epoch == 1000000000
\* the offset (seconds) of the Expires header from the Date header, either way
ExpiresSkew == 3600
\* the response's Date header lies DateLag seconds before Epoch
DateLag == 10
\* the wall clock may advance by up to MaxElapsed seconds between two evaluations
MaxElapsed == 1
\* the longest header value (in lexemes) the parser is applied to
MaxLexemes == 3

----------------------------------------------------------------------------
(* Instants and durations (package time)                                   *)

ZeroTime == [k |-> "zero", s |-> 0]
Unix(n) == [k |-> "unix", s |-> n]

Seconds(n) == [k |-> "fin", s |-> n]
MaxDuration == [k |-> "max", s |-> 0]
MinDuration == [k |-> "min", s |-> 0]

\* t.Sub(u): the difference, saturated when it does not fit a Duration
\* (about 292 years): any instant of the Unix era is further than that
\* from the zero instant (year 1).
TimeSub(t, u) ==
  IF t.k = u.k THEN Seconds(t.s - u.s)
  ELSE IF t.k = "unix" /\ u.k = "zero" THEN MaxDuration
  ELSE IF t.k = "zero" /\ u.k = "unix" THEN MinDuration
  ELSE Seconds(0)

\* t.Add(d)
TimeAdd(t, d) ==
  CASE d.k = "fin" -> [k |-> t.k, s |-> t.s + d.s]
    [] d.k = "max" -> [k |-> "saturated-future", s |-> t.s]
    [] OTHER -> [k |-> "saturated-past", s |-> t.s]

----------------------------------------------------------------------------
(* Headers                                                                 *)

AbsentHeader == [kind |-> "absent", t |-> 0]
BadDate == [kind |-> "bad", t |-> 0]
DateHeader(n) == [kind |-> "date", t |-> n]

\* Header.Get(name) != ""
HeaderPresent(h) == h.kind # "absent"

\* http.ParseTime: the instant, or the zero instant and an error
ParseTime(h) ==
  IF h.kind = "date" THEN [t |-> Unix(h.t), err |-> FALSE]
  ELSE [t |-> ZeroTime, err |-> TRUE]

\* The argument of a directive: none, a token that is a decimal number
\* (-1 included), any other token, a quoted string, or an opening quote that
\* is never closed.  A token or quoted string is kept as the names it lists,
\* split on commas and trimmed.
NoArg == [kind |-> "none", n |-> 0, names |-> <<>>]
NumArg(n) == [kind |-> "num", n |-> n, names |-> <<>>]
TokenArg(names) == [kind |-> "tok", n |-> 0, names |-> names]
QuotedArg(names) == [kind |-> "quoted", n |-> 0, names |-> names]
UnterminatedQuote == [kind |-> "unterminated", n |-> 0, names |-> <<>>]
Directive(name, arg) == [name |-> name, arg |-> arg]

\* optional whitespace and the comma between directives
Separators == {" ", "\t", ","}
Separator(c) == [name |-> c, arg |-> NoArg]
IsSeparator(d) == d.name \in Separators

NoErr == "nil"

----------------------------------------------------------------------------
(* The Cache-Control grammar, after the parser's documented contract and   *)
(* the parser tests: a directive list is folded left to right, the first   *)
(* grammar error aborts the parse and no directive set is returned.        *)

NoResponseDirectives ==
  [NoStore |-> FALSE, NoCachePresent |-> FALSE, NoTransform |-> FALSE,
   MustRevalidate |-> FALSE, ProxyRevalidate |-> FALSE, Public |-> FALSE,
   PrivatePresent |-> FALSE, MaxAge |-> -1, SMaxAge |-> -1,
   NoCache |-> {}, Private |-> {}, Extensions |-> <<>>]

NoRequestDirectives ==
  [NoStore |-> FALSE, NoCache |-> FALSE, NoTransform |-> FALSE,
   OnlyIfCached |-> FALSE, MaxAge |-> -1, MaxStale |-> -1,
   MaxStaleSet |-> FALSE, MinFresh |-> -1, Extensions |-> <<>>]

\* the field names an argument lists
FieldNames(arg) == {arg.names[i] : i \in DOMAIN arg.names}

\* a delta-seconds argument taking the sentinel -1 for a value
DeltaSecondsOk_AllowsMinusOne(arg) == arg.kind = "num" /\ arg.n >= -1

\* an argument counted only when it is a quoted string
HasArg_OnlyQuoted(arg) == arg.kind = "quoted"

\* does the directive carry an argument
HasArg(arg) == arg.kind # "none"

\* a delta-seconds argument: present, numeric and non-negative
DeltaSecondsOk(arg) == arg.kind = "num" /\ arg.n >= 0

\* one response directive applied to the parse so far
ResponseDirective(p, d) ==
  LET set(f, v) == [p EXCEPT !.dir = [p.dir EXCEPT ![f] = v]]
      fail(e) == [p EXCEPT !.err = e]
  IN IF d.arg.kind = "unterminated" THEN fail("ErrQuoteMismatch")
     ELSE
     CASE d.name = "no-store" -> set("NoStore", TRUE)
       [] d.name = "no-cache" ->
            [p EXCEPT !.dir = [p.dir EXCEPT
               !.NoCachePresent = TRUE,
               !.NoCache = p.dir.NoCache \cup FieldNames(d.arg)]]
       [] d.name = "no-transform" -> set("NoTransform", TRUE)
       [] d.name = "must-revalidate" -> set("MustRevalidate", TRUE)
       [] d.name = "private" ->
            [p EXCEPT !.dir = [p.dir EXCEPT
               !.PrivatePresent = TRUE,
               !.Private = p.dir.Private \cup FieldNames(d.arg)]]
       [] d.name = "public" ->
            IF HasArg(d.arg) THEN fail("ErrPublicNoArgs")
            ELSE set("Public", TRUE)
       [] d.name = "proxy-revalidate" ->
            IF HasArg(d.arg) THEN fail("ErrProxyRevalidateNoArgs")
            ELSE set("ProxyRevalidate", TRUE)
       [] d.name = "max-age" ->
            IF DeltaSecondsOk(d.arg) THEN set("MaxAge", d.arg.n)
            ELSE fail("ErrMaxAgeDeltaSeconds")
       [] d.name = "s-maxage" ->
            IF DeltaSecondsOk(d.arg) THEN set("SMaxAge", d.arg.n)
            ELSE fail("ErrSMaxAgeDeltaSeconds")
       [] OTHER -> set("Extensions", Append(p.dir.Extensions, d))

\* one request directive applied to the parse so far
RequestDirective(p, d) ==
  LET set(f, v) == [p EXCEPT !.dir = [p.dir EXCEPT ![f] = v]]
      fail(e) == [p EXCEPT !.err = e]
  IN IF d.arg.kind = "unterminated" THEN fail("ErrQuoteMismatch")
     ELSE
     CASE d.name = "no-store" -> set("NoStore", TRUE)
       [] d.name = "no-cache" -> set("NoCache", TRUE)
       [] d.name = "no-transform" -> set("NoTransform", TRUE)
       [] d.name = "only-if-cached" -> set("OnlyIfCached", TRUE)
       [] d.name = "max-age" ->
            IF DeltaSecondsOk(d.arg) THEN set("MaxAge", d.arg.n)
            ELSE fail("ErrMaxAgeDeltaSeconds")
       [] d.name = "min-fresh" ->
            IF DeltaSecondsOk(d.arg) THEN set("MinFresh", d.arg.n)
            ELSE fail("ErrMinFreshDeltaSeconds")
       [] d.name = "max-stale" ->
            IF d.arg.kind = "none"
            THEN set("MaxStaleSet", TRUE)
            ELSE IF DeltaSecondsOk(d.arg)
            THEN [p EXCEPT !.dir = [p.dir EXCEPT !.MaxStaleSet = TRUE,
                                                 !.MaxStale = d.arg.n]]
            ELSE fail("ErrMaxStaleDeltaSeconds")
       [] OTHER -> set("Extensions", Append(p.dir.Extensions, d))

\* the response fold taking a separator for a directive
RECURSIVE ParseResponseFrom_KeepsSeparators(_, _)
ParseResponseFrom_KeepsSeparators(ds, p) ==
  IF ds = <<>> \/ p.err # NoErr THEN p
  ELSE ParseResponseFrom_KeepsSeparators(Tail(ds), ResponseDirective(p, Head(ds)))

RECURSIVE ParseResponseFrom(_, _)
ParseResponseFrom(ds, p) ==
  IF ds = <<>> \/ p.err # NoErr THEN p
  ELSE IF IsSeparator(Head(ds)) THEN ParseResponseFrom(Tail(ds), p)
  ELSE ParseResponseFrom(Tail(ds), ResponseDirective(p, Head(ds)))

RECURSIVE ParseRequestFrom(_, _)
ParseRequestFrom(ds, p) ==
  IF ds = <<>> \/ p.err # NoErr THEN p
  ELSE IF IsSeparator(Head(ds)) THEN ParseRequestFrom(Tail(ds), p)
  ELSE ParseRequestFrom(Tail(ds), RequestDirective(p, Head(ds)))

\* the response parse handing back what it had parsed when it failed
ParseResponseCacheControl_KeepsPartial(value) ==
  LET p == ParseResponseFrom(value, [dir |-> NoResponseDirectives, err |-> NoErr])
  IN [nil |-> FALSE, dir |-> p.dir, err |-> p.err]

\* ParseResponseCacheControl(value): (directive set, nil) or (nil, error)
ParseResponseCacheControl(value) ==
  LET p == ParseResponseFrom(value, [dir |-> NoResponseDirectives, err |-> NoErr])
  IN IF p.err # NoErr
     THEN [nil |-> TRUE, dir |-> NoResponseDirectives, err |-> p.err]
     ELSE [nil |-> FALSE, dir |-> p.dir, err |-> NoErr]

\* ParseRequestCacheControl(value): (directive set, nil) or (nil, error)
ParseRequestCacheControl(value) ==
  LET p == ParseRequestFrom(value, [dir |-> NoRequestDirectives, err |-> NoErr])
  IN IF p.err # NoErr
     THEN [nil |-> TRUE, dir |-> NoRequestDirectives, err |-> p.err]
     ELSE [nil |-> FALSE, dir |-> p.dir, err |-> NoErr]

----------------------------------------------------------------------------
(* reasons.go                                                              *)

\* hasFreshness taking s-maxage as freshness information in a private cache too
hasFreshness_AnyCache(reqDir, respDir, headers, o) ==
  respDir.SMaxAge # -1 \/ respDir.MaxAge # -1 \/ HeaderPresent(headers.Expires)

\* hasFreshness: is explicit freshness information present
hasFreshness(reqDir, respDir, headers, o) ==
  IF ~o.PrivateCache /\ respDir.SMaxAge # -1 THEN TRUE
  ELSE IF respDir.MaxAge # -1 THEN TRUE
  ELSE IF HeaderPresent(headers.Expires) THEN TRUE
  ELSE FALSE

CachableStatusCodes == {200, 203, 204, 206, 300, 301, 404, 405, 410, 414, 501}

\* cachableStatusCode taking 302 (Found) for cacheable by default
cachableStatusCode_With302(sc) == sc \in CachableStatusCodes \cup {302}

cachableStatusCode(sc) == sc \in CachableStatusCodes

\* the switch on req.Method letting explicit freshness exempt PUT as it does POST
MethodReasons_FreshPUT(method, reqDir, respDir, headers, o) ==
  CASE method \in {"GET", "HEAD"} -> <<>>
    [] method \in {"POST", "PUT"} ->
         IF ~hasFreshness(reqDir, respDir, headers, o)
         THEN <<"ReasonRequestMethod" \o method>> ELSE <<>>
    [] method \in {"DELETE", "CONNECT", "OPTIONS", "TRACE"} ->
         <<"ReasonRequestMethod" \o method>>
    [] OTHER -> <<"ReasonRequestMethodUnkown">>

\* the switch on req.Method
MethodReasons(method, reqDir, respDir, headers, o) ==
  CASE method = "GET" -> <<>>
    [] method = "HEAD" -> <<>>
    [] method = "POST" ->
         IF ~hasFreshness(reqDir, respDir, headers, o)
         THEN <<"ReasonRequestMethodPOST">> ELSE <<>>
    [] method = "PUT" -> <<"ReasonRequestMethodPUT">>
    [] method = "DELETE" -> <<"ReasonRequestMethodDELETE">>
    [] method = "CONNECT" -> <<"ReasonRequestMethodCONNECT">>
    [] method = "OPTIONS" -> <<"ReasonRequestMethodOPTIONS">>
    [] method = "TRACE" -> <<"ReasonRequestMethodTRACE">>
    [] OTHER -> <<"ReasonRequestMethodUnkown">>

\* if reqDir.NoStore
RequestNoStoreReasons(reqDir) ==
  IF reqDir.NoStore THEN <<"ReasonRequestNoStore">> ELSE <<>>

\* the Authorization check exempting any response with explicit freshness
AuthorizationReasons_MaxAgeExempts(authz, respDir) ==
  IF authz # "" /\ ~(\/ respDir.MustRevalidate \/ respDir.Public
                     \/ respDir.SMaxAge # -1 \/ respDir.MaxAge # -1)
  THEN <<"ReasonRequestAuthorizationHeader">>
  ELSE <<>>

\* storing responses to authenticated requests
AuthorizationReasons(authz, respDir) ==
  IF authz # ""
  THEN IF respDir.MustRevalidate \/ respDir.Public \/ respDir.SMaxAge # -1
       THEN <<>>
       ELSE <<"ReasonRequestAuthorizationHeader">>
  ELSE <<>>

\* the private check without the cache type
ResponsePrivateReasons_AnyCache(respDir, o) ==
  IF respDir.PrivatePresent THEN <<"ReasonResponsePrivate">> ELSE <<>>

\* if respDir.PrivatePresent && !opts.PrivateCache
ResponsePrivateReasons(respDir, o) ==
  IF respDir.PrivatePresent /\ ~o.PrivateCache
  THEN <<"ReasonResponsePrivate">> ELSE <<>>

\* if respDir.NoStore
ResponseNoStoreReasons(respDir) ==
  IF respDir.NoStore THEN <<"ReasonResponseNoStore">> ELSE <<>>

\* the default-cacheability gate
UncachableByDefaultReasons(sc, respDir, headers, o) ==
  LET expires == HeaderPresent(headers.Expires)
      statusCachable == cachableStatusCode(sc)
  IN IF \/ expires
        \/ respDir.MaxAge # -1
        \/ (respDir.SMaxAge # -1 /\ ~o.PrivateCache)
        \/ statusCachable
        \/ respDir.Public
     THEN <<>>
     ELSE <<"ReasonResponseUncachableByDefault">>

\* the checks with the response no-store check ahead of the private check
ReasonList_NoStoreFirst(r, reqDir, sc, respDir, headers, o) ==
  (IF ~r.nil
   THEN MethodReasons(r.Method, reqDir, respDir, headers, o)
        \o RequestNoStoreReasons(reqDir)
        \o AuthorizationReasons(r.Authorization, respDir)
   ELSE <<>>)
  \o ResponseNoStoreReasons(respDir)
  \o ResponsePrivateReasons(respDir, o)
  \o UncachableByDefaultReasons(sc, respDir, headers, o)

\* the checks returning early when no request is supplied
ReasonList_NilSkipsResponse(r, reqDir, sc, respDir, headers, o) ==
  IF r.nil THEN <<>>
  ELSE MethodReasons(r.Method, reqDir, respDir, headers, o)
       \o RequestNoStoreReasons(reqDir)
       \o AuthorizationReasons(r.Authorization, respDir)
       \o ResponsePrivateReasons(respDir, o)
       \o ResponseNoStoreReasons(respDir)
       \o UncachableByDefaultReasons(sc, respDir, headers, o)

\* the reasons of calcReasons, in the order the checks append them
ReasonList(r, reqDir, sc, respDir, headers, o) ==
  (IF ~r.nil
   THEN MethodReasons(r.Method, reqDir, respDir, headers, o)
        \o RequestNoStoreReasons(reqDir)
        \o AuthorizationReasons(r.Authorization, respDir)
   ELSE <<>>)
  \o ResponsePrivateReasons(respDir, o)
  \o ResponseNoStoreReasons(respDir)
  \o UncachableByDefaultReasons(sc, respDir, headers, o)

\* Does the freshness computation fall back to the wall clock for the
\* server date (serverDate = time.Now())?
ReadsClockForDate(respDir, headers, o) ==
  /\ ~(respDir.SMaxAge # -1 /\ ~o.PrivateCache)
  /\ respDir.MaxAge = -1
  /\ HeaderPresent(headers.Expires)
  /\ ParseTime(headers.Date).err

\* the freshness computation preferring max-age to s-maxage
ExpiresTime_MaxAgeFirst(respDir, headers, o, nowDate, nowUTC) ==
  IF respDir.MaxAge # -1
  THEN [t |-> TimeAdd(Unix(nowUTC), Seconds(respDir.MaxAge)), err |-> NoErr]
  ELSE IF respDir.SMaxAge # -1 /\ ~o.PrivateCache
  THEN [t |-> TimeAdd(Unix(nowUTC), Seconds(respDir.SMaxAge)), err |-> NoErr]
  ELSE IF HeaderPresent(headers.Expires)
  THEN LET date == ParseTime(headers.Date)
           serverDate == IF date.err THEN Unix(nowDate) ELSE date.t
       IN [t |-> TimeAdd(Unix(nowUTC),
                         TimeSub(serverDate, ParseTime(headers.Expires).t)),
           err |-> NoErr]
  ELSE [t |-> ZeroTime, err |-> NoErr]

\* the freshness computation taking a response without freshness information
\* for one that expires now
ExpiresTime_ExpiredNow(respDir, headers, o, nowDate, nowUTC) ==
  IF respDir.SMaxAge # -1 /\ ~o.PrivateCache
  THEN [t |-> TimeAdd(Unix(nowUTC), Seconds(respDir.SMaxAge)), err |-> NoErr]
  ELSE IF respDir.MaxAge # -1
  THEN [t |-> TimeAdd(Unix(nowUTC), Seconds(respDir.MaxAge)), err |-> NoErr]
  ELSE IF HeaderPresent(headers.Expires)
  THEN LET date == ParseTime(headers.Date)
           serverDate == IF date.err THEN Unix(nowDate) ELSE date.t
       IN [t |-> TimeAdd(Unix(nowUTC),
                         TimeSub(serverDate, ParseTime(headers.Expires).t)),
           err |-> NoErr]
  ELSE [t |-> Unix(nowUTC), err |-> NoErr]

\* The freshness computation.  nowDate is the clock read that replaces an
\* unparseable Date header, nowUTC the read the result is based on.  The
\* guard on the Expires parse compares err with itself.
ExpiresTime(respDir, headers, o, nowDate, nowUTC) ==
  IF respDir.SMaxAge # -1 /\ ~o.PrivateCache
  THEN [t |-> TimeAdd(Unix(nowUTC), Seconds(respDir.SMaxAge)), err |-> NoErr]
  ELSE IF respDir.MaxAge # -1
  THEN [t |-> TimeAdd(Unix(nowUTC), Seconds(respDir.MaxAge)), err |-> NoErr]
  ELSE IF HeaderPresent(headers.Expires)
  THEN LET expiresIn == ParseTime(headers.Expires)
           date == ParseTime(headers.Date)
           serverDate == IF date.err THEN Unix(nowDate) ELSE date.t
       IN IF expiresIn.err # expiresIn.err
          THEN [t |-> ZeroTime, err |-> "ErrExpiresParse"]
          ELSE [t |-> TimeAdd(Unix(nowUTC), TimeSub(serverDate, expiresIn.t)),
                err |-> NoErr]
  ELSE [t |-> ZeroTime, err |-> NoErr]

\* calcReasons(req, statusCode, respHeaders, opts)
calcReasons(r, sc, headers, o, nowDate, nowUTC) ==
  LET resp == ParseResponseCacheControl(headers.CacheControl)
      request == ParseRequestCacheControl(r.CacheControl)
      exp == ExpiresTime(resp.dir, headers, o, nowDate, nowUTC)
  IN IF resp.err # NoErr
     THEN [rv |-> <<>>, expiresTime |-> ZeroTime, err |-> resp.err]
     ELSE IF ~r.nil /\ request.err # NoErr
     THEN [rv |-> <<>>, expiresTime |-> ZeroTime, err |-> request.err]
     ELSE IF exp.err # NoErr
     THEN [rv |-> <<>>, expiresTime |-> ZeroTime, err |-> exp.err]
     ELSE [rv |-> ReasonList(r, request.dir, sc, resp.dir, headers, o),
           expiresTime |-> exp.t, err |-> NoErr]

----------------------------------------------------------------------------
(* The evaluation contexts Init draws                                      *)

Methods == {"GET", "HEAD", "POST", "PUT", "DELETE", "CONNECT", "OPTIONS",
            "TRACE", "PATCH", "get"}

FlagOrder == <<"no-store", "must-revalidate", "public", "private">>

\* the bare directives of a set, as a header value
FlagDirectives(flags) ==
  LET names == SelectSeq(FlagOrder, LAMBDA n : n \in flags)
  IN [i \in 1..Len(names) |-> Directive(names[i], NoArg)]

\* a delta-seconds directive: absent, or present with an argument 0..MaxDelta
AgeDirectives(name) ==
  {<<>>} \cup {<<Directive(name, NumArg(n))>> : n \in 0..MaxDelta}

ResponseCacheControls(flagSets) ==
  {FlagDirectives(f) \o m \o s :
     f \in flagSets, m \in AgeDirectives("max-age"),
     s \in AgeDirectives("s-maxage")}

\* header values the grammar rejects
MalformedCacheControls ==
  {<<Directive("max-age", NoArg)>>,
   <<Directive("private", NoArg), Directive("s-maxage", NumArg(-1))>>}

RequestCacheControls == {<<>>, <<Directive("no-store", NoArg)>>}

Requests(methods, controls, authzs) ==
  [nil : {FALSE}, Method : methods, CacheControl : controls,
   Authorization : authzs]

NilRequest ==
  [nil |-> TRUE, Method |-> "", CacheControl |-> <<>>, Authorization |-> ""]

PlainGET ==
  [nil |-> FALSE, Method |-> "GET", CacheControl |-> <<>>, Authorization |-> ""]

ServerDate == Epoch - DateLag

Headers(controls, expires, dates, lastModifieds) ==
  [CacheControl : controls, Expires : expires, Date : dates,
   LastModified : lastModifieds]

Options == [PrivateCache : BOOLEAN]

AllFlagSets == SUBSET {"no-store", "must-revalidate", "public", "private"}

\* every method, request directive and response directive combination
DecisionContexts ==
  [req : Requests(Methods, RequestCacheControls, {"", "bearer random"})
           \cup {NilRequest},
   statusCode : {200, 500},
   respHeaders : Headers(ResponseCacheControls(AllFlagSets),
                         {AbsentHeader, DateHeader(ServerDate + ExpiresSkew)},
                         {DateHeader(ServerDate)}, {AbsentHeader}),
   opts : Options]

\* every status code
StatusContexts ==
  [req : {PlainGET},
   statusCode : 100..599,
   respHeaders : Headers(ResponseCacheControls({{}, {"public"}}),
                         {AbsentHeader, DateHeader(ServerDate + ExpiresSkew)},
                         {DateHeader(ServerDate)}, {AbsentHeader}),
   opts : Options]

\* every shape of the date-bearing headers
FreshnessContexts ==
  [req : {PlainGET},
   statusCode : {200},
   respHeaders : Headers(ResponseCacheControls({{}}),
                         {AbsentHeader, BadDate, DateHeader(ServerDate),
                          DateHeader(ServerDate + ExpiresSkew),
                          DateHeader(ServerDate - ExpiresSkew)},
                         {AbsentHeader, BadDate, DateHeader(ServerDate)},
                         {AbsentHeader, DateHeader(ServerDate - 3600),
                          DateHeader(ServerDate - 70000 * 3600)}),
   opts : Options]

\* header values that do not parse
MalformedContexts ==
  [req : Requests({"GET", "PUT"}, RequestCacheControls, {""}),
   statusCode : {200},
   respHeaders : Headers(MalformedCacheControls, {AbsentHeader},
                         {DateHeader(ServerDate)}, {AbsentHeader}),
   opts : Options]
  \cup
  [req : Requests({"GET", "PUT"}, MalformedCacheControls, {""}),
   statusCode : {200},
   respHeaders : Headers(ResponseCacheControls({{}, {"private"}}),
                         {AbsentHeader}, {DateHeader(ServerDate)},
                         {AbsentHeader}),
   opts : Options]

\* no header value parsed
NotParsed == [nil |-> TRUE, dir |-> NoResponseDirectives, err |-> NoErr]

\* no evaluation recorded
NoResult == [rv |-> <<>>, expiresTime |-> ZeroTime, err |-> NoErr]

Contexts ==
  DecisionContexts \cup StatusContexts \cup FreshnessContexts
    \cup MalformedContexts

----------------------------------------------------------------------------
(* The state machine: one evaluation of one context                        *)

Init ==
  /\ \E c \in Contexts :
        /\ req = c.req
        /\ statusCode = c.statusCode
        /\ respHeaders = c.respHeaders
        /\ opts = c.opts
  /\ clock = Epoch
  /\ pc = "start"
  /\ now = 0
  /\ outReasons = <<>>
  /\ outExpires = ZeroTime
  /\ outErr = NoErr
  /\ first = NoResult
  /\ header = <<>>
  /\ cd = NotParsed

\* One call of calcReasons on the context.  The first clock read returns
\* clock; when the server date falls back to the clock, the second read
\* comes up to MaxTick seconds later.
Evaluation ==
  \E tick \in 0..MaxTick :
    LET resp == ParseResponseCacheControl(respHeaders.CacheControl)
        second == resp.err = NoErr
                    /\ ReadsClockForDate(resp.dir, respHeaders, opts)
        nowUTC == IF second THEN clock + tick ELSE clock
        out == calcReasons(req, statusCode, respHeaders, opts, clock, nowUTC)
    IN /\ (tick > 0 => second)
       /\ now' = nowUTC
       /\ clock' = nowUTC
       /\ outReasons' = out.rv
       /\ outExpires' = out.expiresTime
       /\ outErr' = out.err

\* Cachable / CachableResponse: both hand their arguments to calcReasons.
Cachable ==
  /\ pc = "start"
  /\ Evaluation
  /\ pc' = "done"
  /\ UNCHANGED <<req, statusCode, respHeaders, opts, first, header, cd>>

Next == Cachable

Spec == Init /\ [][Next]_vars

----------------------------------------------------------------------------
(* The same context evaluated a second time                                *)

\* the wall clock advances between the two calls
Tick ==
  /\ pc = "done"
  /\ clock < Epoch + MaxElapsed
  /\ clock' = clock + 1
  /\ UNCHANGED <<req, statusCode, respHeaders, opts, pc, now, outReasons,
                 outExpires, outErr, first, header, cd>>

\* the caller calls Cachable again with the same arguments
CachableAgain ==
  /\ pc = "done"
  /\ first' = [rv |-> outReasons, expiresTime |-> outExpires, err |-> outErr]
  /\ Evaluation
  /\ pc' = "again"
  /\ UNCHANGED <<req, statusCode, respHeaders, opts, header, cd>>

\* well-formed responses to a plain GET, with a Date header
RepeatContexts ==
  [req : {PlainGET},
   statusCode : {200, 500},
   respHeaders : Headers(ResponseCacheControls({{}, {"private"}}),
                         {AbsentHeader, DateHeader(ServerDate + ExpiresSkew)},
                         {DateHeader(ServerDate)},
                         {AbsentHeader, DateHeader(ServerDate - 3600)}),
   opts : Options]

InitRepeat ==
  /\ \E c \in RepeatContexts :
        /\ req = c.req
        /\ statusCode = c.statusCode
        /\ respHeaders = c.respHeaders
        /\ opts = c.opts
  /\ clock = Epoch
  /\ pc = "start"
  /\ now = 0
  /\ outReasons = <<>>
  /\ outExpires = ZeroTime
  /\ outErr = NoErr
  /\ first = NoResult
  /\ header = <<>>
  /\ cd = NotParsed

NextRepeat == Cachable \/ Tick \/ CachableAgain

SpecRepeat == InitRepeat /\ [][NextRepeat]_vars

----------------------------------------------------------------------------
(* The parser applied to one header value                                  *)

AgeArguments ==
  {NoArg, TokenArg(<<"abc">>)} \cup {NumArg(n) : n \in -1..MaxDelta}

Lexicon ==
  {Separator(c) : c \in Separators}
    \cup {Directive("max-age", a) : a \in AgeArguments}
    \cup {Directive("s-maxage", a) : a \in AgeArguments}
    \cup {Directive("public", a) : a \in {NoArg, TokenArg(<<"Vary">>)}}
    \cup {Directive("proxy-revalidate", a) : a \in {NoArg, NumArg(0)}}
    \cup {Directive("private", a) :
            a \in {NoArg, QuotedArg(<<"Set-Cookie", "Request-Id">>)}}
    \cup {Directive("no-store", NoArg)}
    \cup {Directive("foo", a) : a \in {QuotedArg(<<>>), UnterminatedQuote}}

\* Every value of up to MaxLexemes lexemes; an opening quote that is never
\* closed swallows the rest of the value, so it can only come last.
HeaderValues ==
  {v \in UNION {[1..n -> Lexicon] : n \in 0..MaxLexemes} :
     \A i \in DOMAIN v : v[i].arg.kind = "unterminated" => i = Len(v)}

InitParse ==
  /\ header \in HeaderValues
  /\ cd = NotParsed
  /\ req = PlainGET
  /\ statusCode = 200
  /\ respHeaders = [CacheControl |-> <<>>, Expires |-> AbsentHeader,
                    Date |-> AbsentHeader, LastModified |-> AbsentHeader]
  /\ opts = [PrivateCache |-> FALSE]
  /\ clock = Epoch
  /\ pc = "start"
  /\ now = 0
  /\ outReasons = <<>>
  /\ outExpires = ZeroTime
  /\ outErr = NoErr
  /\ first = NoResult

\* ParseResponseCacheControl(header)
ParseResponse ==
  /\ pc = "start"
  /\ cd' = ParseResponseCacheControl(header)
  /\ pc' = "response"
  /\ UNCHANGED <<req, statusCode, respHeaders, opts, clock, now, outReasons,
                 outExpires, outErr, first, header>>

\* ParseRequestCacheControl(header)
ParseRequest ==
  /\ pc = "start"
  /\ cd' = ParseRequestCacheControl(header)
  /\ pc' = "request"
  /\ UNCHANGED <<req, statusCode, respHeaders, opts, clock, now, outReasons,
                 outExpires, outErr, first, header>>

NextParse == ParseResponse \/ ParseRequest

SpecParse == InitParse /\ [][NextParse]_vars

----------------------------------------------------------------------------
(* What the properties read off a context: the header values as sent, not  *)
(* the parsed directive sets.                                              *)

Returned == pc = "done" /\ outErr = NoErr

Has(reason) == \E i \in DOMAIN outReasons : outReasons[i] = reason

Sent(name) ==
  \E i \in DOMAIN respHeaders.CacheControl :
    respHeaders.CacheControl[i].name = name

RequestSent(name) ==
  \E i \in DOMAIN req.CacheControl : req.CacheControl[i].name = name

SharedCache == ~opts.PrivateCache

ExpiresSent == respHeaders.Expires # AbsentHeader

\* s-maxage in a shared cache, max-age, or an Expires header
FreshnessSent == (Sent("s-maxage") /\ SharedCache) \/ Sent("max-age") \/ ExpiresSent

MethodReasonOf ==
  [m \in {"POST", "PUT", "DELETE", "CONNECT", "OPTIONS", "TRACE"} |->
     "ReasonRequestMethod" \o m]

MethodReasonNames ==
  {MethodReasonOf[m] : m \in DOMAIN MethodReasonOf}
    \cup {"ReasonRequestMethodUnkown"}

\* C1: a successful evaluation reports ReasonResponsePrivate exactly when the
\* response carries private and the cache is shared; a plain GET answered 200
\* with only private yields exactly that reason in a shared cache and none in
\* a private cache.
C1_PrivateOnlyInSharedCache ==
  Returned =>
    /\ Has("ReasonResponsePrivate") <=> (Sent("private") /\ SharedCache)
    /\ (/\ req = PlainGET
        /\ statusCode = 200
        /\ respHeaders.CacheControl = <<Directive("private", NoArg)>>)
       => outReasons = IF SharedCache THEN <<"ReasonResponsePrivate">> ELSE <<>>

C1_Witness ==
  /\ Returned
  /\ req = PlainGET
  /\ statusCode = 200
  /\ respHeaders.CacheControl = <<Directive("private", NoArg)>>
  /\ SharedCache
  /\ outReasons = <<"ReasonResponsePrivate">>

\* C2: for a POST, ReasonRequestMethodPOST is reported exactly when the
\* response has no explicit freshness information (s-maxage in a shared cache,
\* max-age, or an Expires header).
C2_POSTNeedsFreshness ==
  (Returned /\ ~req.nil /\ req.Method = "POST") =>
    (Has("ReasonRequestMethodPOST") <=> ~FreshnessSent)

\* a POST whose response has s-maxage alone, in a private cache
C2_Witness ==
  /\ Returned
  /\ ~req.nil
  /\ req.Method = "POST"
  /\ Sent("s-maxage")
  /\ ~Sent("max-age")
  /\ ~ExpiresSent
  /\ opts.PrivateCache
  /\ Has("ReasonRequestMethodPOST")

\* C3: whatever the response, PUT, DELETE, CONNECT, OPTIONS and TRACE report
\* their own method reason, a method outside the eight known ones reports the
\* unknown-method reason, and GET and HEAD report no method reason.
C3_MethodReasons ==
  (Returned /\ ~req.nil) =>
    /\ req.Method \in {"PUT", "DELETE", "CONNECT", "OPTIONS", "TRACE"}
         => \A r \in MethodReasonNames : Has(r) <=> r = MethodReasonOf[req.Method]
    /\ req.Method \notin {"GET", "HEAD", "POST", "PUT", "DELETE", "CONNECT",
                          "OPTIONS", "TRACE"}
         => \A r \in MethodReasonNames : Has(r) <=> r = "ReasonRequestMethodUnkown"
    /\ req.Method \in {"GET", "HEAD"}
         => \A r \in MethodReasonNames : ~Has(r)

\* a PUT answered with max-age, public and an Expires header
C3_Witness ==
  /\ Returned
  /\ ~req.nil
  /\ req.Method = "PUT"
  /\ Sent("max-age")
  /\ Sent("public")
  /\ ExpiresSent
  /\ Has("ReasonRequestMethodPUT")

\* C4: ReasonRequestAuthorizationHeader is reported exactly when the request
\* has an Authorization header and the response has none of must-revalidate,
\* public and s-maxage, whatever the cache type.
C4_AuthorizationNeedsExemption ==
  (Returned /\ ~req.nil) =>
    (Has("ReasonRequestAuthorizationHeader") <=>
       /\ req.Authorization # ""
       /\ ~(Sent("must-revalidate") \/ Sent("public") \/ Sent("s-maxage")))

\* an authorized request whose response has max-age alone
C4_Witness ==
  /\ Returned
  /\ ~req.nil
  /\ req.Authorization # ""
  /\ Sent("max-age")
  /\ ~(Sent("must-revalidate") \/ Sent("public") \/ Sent("s-maxage"))
  /\ Has("ReasonRequestAuthorizationHeader")

\* C5: ReasonResponseUncachableByDefault is reported exactly when there is no
\* Expires header, no max-age, no s-maxage in a shared cache, no public, and
\* the status code is none of 200, 203, 204, 206, 300, 301, 404, 405, 410,
\* 414, 501.
C5_UncachableByDefault ==
  Returned =>
    (Has("ReasonResponseUncachableByDefault") <=>
       ~(\/ ExpiresSent
         \/ Sent("max-age")
         \/ (Sent("s-maxage") /\ SharedCache)
         \/ statusCode \in {200, 203, 204, 206, 300, 301, 404, 405, 410, 414, 501}
         \/ Sent("public")))

\* a 302 with nothing that makes it cacheable
C5_Witness ==
  /\ Returned
  /\ statusCode = 302
  /\ ~ExpiresSent
  /\ respHeaders.CacheControl = <<>>
  /\ outReasons = <<"ReasonResponseUncachableByDefault">>

\* the reasons in the order of the checks
CheckOrder ==
  <<"ReasonRequestMethodPOST", "ReasonRequestMethodPUT",
    "ReasonRequestMethodDELETE", "ReasonRequestMethodCONNECT",
    "ReasonRequestMethodOPTIONS", "ReasonRequestMethodTRACE",
    "ReasonRequestMethodUnkown", "ReasonRequestNoStore",
    "ReasonRequestAuthorizationHeader", "ReasonResponsePrivate",
    "ReasonResponseNoStore", "ReasonResponseUncachableByDefault">>

\* the condition of each check, on the context as sent
Applies(reason) ==
  CASE reason = "ReasonRequestMethodPOST" ->
         ~req.nil /\ req.Method = "POST" /\ ~FreshnessSent
    [] reason = "ReasonRequestMethodUnkown" ->
         ~req.nil /\ req.Method \notin DOMAIN MethodReasonOf \cup {"GET", "HEAD"}
    [] reason \in MethodReasonNames ->
         ~req.nil /\ req.Method \in DOMAIN MethodReasonOf
                  /\ reason = MethodReasonOf[req.Method]
    [] reason = "ReasonRequestNoStore" -> ~req.nil /\ RequestSent("no-store")
    [] reason = "ReasonRequestAuthorizationHeader" ->
         /\ ~req.nil
         /\ req.Authorization # ""
         /\ ~(Sent("must-revalidate") \/ Sent("public") \/ Sent("s-maxage"))
    [] reason = "ReasonResponsePrivate" -> Sent("private") /\ SharedCache
    [] reason = "ReasonResponseNoStore" -> Sent("no-store")
    [] reason = "ReasonResponseUncachableByDefault" ->
         ~(\/ FreshnessSent
           \/ statusCode \in {200, 203, 204, 206, 300, 301, 404, 405, 410, 414, 501}
           \/ Sent("public"))

\* C6: the reason list is exactly the checks whose conditions hold, in the
\* order method, request no-store, Authorization, response private, response
\* no-store, uncachable by default; no reason twice, at most one method reason.
C6_ReasonsInCheckOrder ==
  Returned =>
    /\ outReasons = SelectSeq(CheckOrder, Applies)
    /\ \A i, j \in DOMAIN outReasons : outReasons[i] = outReasons[j] => i = j
    /\ Cardinality({i \in DOMAIN outReasons : outReasons[i] \in MethodReasonNames}) <= 1

\* a PUT with request no-store whose response is also private and no-store
C6_Witness ==
  /\ Returned
  /\ outReasons = <<"ReasonRequestMethodPUT", "ReasonRequestNoStore",
                    "ReasonResponsePrivate", "ReasonResponseNoStore">>

\* the argument of a delta-seconds directive of the response, as sent
ArgSent(name) ==
  LET value == respHeaders.CacheControl
  IN value[CHOOSE i \in DOMAIN value : value[i].name = name].arg.n

SMaxAgeApplies == Sent("s-maxage") /\ SharedCache

\* C7: with s-maxage in a shared cache the expiration is now + s-maxage,
\* whatever max-age and Expires say; otherwise with max-age it is
\* now + max-age, whatever Expires says.
C7_ExpirationPriority ==
  Returned =>
    /\ SMaxAgeApplies => outExpires = Unix(now + ArgSent("s-maxage"))
    /\ (~SMaxAgeApplies /\ Sent("max-age"))
         => outExpires = Unix(now + ArgSent("max-age"))

\* s-maxage, a different max-age and an Expires header, in a shared cache
C7_Witness ==
  /\ Returned
  /\ SMaxAgeApplies
  /\ Sent("max-age")
  /\ ArgSent("max-age") # ArgSent("s-maxage")
  /\ ExpiresSent
  /\ outExpires = Unix(now + ArgSent("s-maxage"))

\* the expiration comes from the Expires header
ExpiresConsulted == ~SMaxAgeApplies /\ ~Sent("max-age") /\ ExpiresSent

\* the Date header, or now when it is absent or no date
DateOrNow ==
  IF respHeaders.Date.kind = "date" THEN respHeaders.Date.t ELSE now

\* C8: an expiration derived from the Expires header is
\* now + (Expires - Date), Date being now when the header is absent or
\* unparseable.
C8_ExpiresMinusDate ==
  (Returned /\ ExpiresConsulted /\ respHeaders.Expires.kind = "date") =>
    outExpires = Unix(now + (respHeaders.Expires.t - DateOrNow))

\* both Cache-Control values are well-formed
GrammarOk ==
  \A value \in {respHeaders.CacheControl, req.CacheControl} :
    \A i \in DOMAIN value :
      value[i].name \in {"max-age", "s-maxage"}
        => value[i].arg.kind = "num" /\ value[i].arg.n >= 0

\* C9: when the expiration would come from an Expires header that is no HTTP
\* date the evaluation returns an error; an unparseable Date header alone
\* never does.
C9_BadExpiresIsAnError ==
  (pc = "done" /\ GrammarOk /\ ExpiresConsulted) =>
    /\ respHeaders.Expires.kind = "bad" => outErr # NoErr
    /\ (respHeaders.Expires.kind = "date" /\ respHeaders.Date.kind = "bad")
         => outErr = NoErr

\* 10% of a number of seconds, capped at 24 hours
HeuristicSeconds(age) == IF age \div 10 > 24 * 3600 THEN 24 * 3600 ELSE age \div 10

\* C10: with no applicable s-maxage, no max-age and no Expires header, a
\* Last-Modified header gives the expiration
\* now + min(10% of (Date - Last-Modified), 24 hours), which is not zero.
C10_HeuristicFreshness ==
  (/\ Returned
   /\ ~SMaxAgeApplies
   /\ ~Sent("max-age")
   /\ ~ExpiresSent
   /\ respHeaders.LastModified.kind = "date") =>
    /\ outExpires # ZeroTime
    /\ outExpires =
         Unix(now + HeuristicSeconds(DateOrNow - respHeaders.LastModified.t))

\* no applicable s-maxage, no max-age, no Expires and no Last-Modified header
NoFreshnessSent ==
  /\ ~SMaxAgeApplies
  /\ ~Sent("max-age")
  /\ ~ExpiresSent
  /\ respHeaders.LastModified = AbsentHeader

\* C11: without an applicable s-maxage, max-age, Expires header or
\* Last-Modified header the evaluation returns no error and the zero instant;
\* max-age=0 returns the instant now, which is not the zero instant.
C11_NoFreshnessIsUnset ==
  /\ (pc = "done" /\ GrammarOk /\ NoFreshnessSent)
       => outErr = NoErr /\ outExpires = ZeroTime
  /\ (Returned /\ ~SMaxAgeApplies /\ Sent("max-age") /\ ArgSent("max-age") = 0)
       => outExpires = Unix(now) /\ outExpires # ZeroTime

\* a plain GET answered 200 with only Cache-Control: public
C11_Witness ==
  /\ Returned
  /\ req = PlainGET
  /\ statusCode = 200
  /\ respHeaders.CacheControl = <<Directive("public", NoArg)>>
  /\ NoFreshnessSent
  /\ outReasons = <<>>
  /\ outExpires = ZeroTime

\* C17: without a request no method, request no-store or Authorization
\* reason is reported, and the response-side reasons are reported on the
\* same conditions as with a request.
C17_NilRequestSkipsRequestChecks ==
  (Returned /\ req.nil) =>
    /\ \A r \in MethodReasonNames \cup {"ReasonRequestNoStore",
                                        "ReasonRequestAuthorizationHeader"} :
         ~Has(r)
    /\ Has("ReasonResponsePrivate") <=> (Sent("private") /\ SharedCache)
    /\ Has("ReasonResponseNoStore") <=> Sent("no-store")
    /\ Has("ReasonResponseUncachableByDefault") <=>
         ~(\/ FreshnessSent
           \/ statusCode \in {200, 203, 204, 206, 300, 301, 404, 405, 410, 414, 501}
           \/ Sent("public"))

\* no request, a 500 response that is private and no-store, shared cache
C17_Witness ==
  /\ Returned
  /\ req.nil
  /\ statusCode = 500
  /\ outReasons = <<"ReasonResponsePrivate", "ReasonResponseNoStore",
                    "ReasonResponseUncachableByDefault">>

\* C12: two evaluations of the same context return the same reason list, the
\* same expiration instant and the same error.
C12_SameContextSameResult ==
  pc = "again" =>
    /\ outReasons = first.rv
    /\ outExpires = first.expiresTime
    /\ outErr = first.err

----------------------------------------------------------------------------
(* Claims about the Cache-Control parser                                   *)

Parsed == pc \in {"response", "request"}

\* positions of the directives of the header value, separators left out
DirectivesSent == {i \in DOMAIN header : header[i].name \notin {" ", "\t", ","}}

\* the header value names the directive at least once
Named(name) == \E i \in DirectivesSent : header[i].name = name

\* an argument that is missing, not a number, or a negative number
BadDeltaSeconds(arg) ==
  \/ arg.kind \in {"none", "tok", "quoted"}
  \/ arg.kind = "num" /\ arg.n < 0

\* the directive at position i breaks the response grammar
BreaksResponse(i) ==
  /\ i \in DirectivesSent
  /\ \/ header[i].arg.kind = "unterminated"
     \/ header[i].name \in {"max-age", "s-maxage"}
          /\ BadDeltaSeconds(header[i].arg)
     \/ header[i].name \in {"public", "proxy-revalidate"}
          /\ header[i].arg.kind \in {"num", "tok", "quoted"}

\* the directive at position i breaks the request grammar
BreaksRequest(i) ==
  /\ i \in DirectivesSent
  /\ \/ header[i].arg.kind = "unterminated"
     \/ header[i].name \in {"max-age", "min-fresh"}
          /\ BadDeltaSeconds(header[i].arg)
     \/ header[i].name = "max-stale"
          /\ header[i].arg.kind # "none"
          /\ BadDeltaSeconds(header[i].arg)

Breaks(i) == IF pc = "response" THEN BreaksResponse(i) ELSE BreaksRequest(i)

\* position i holds the first directive that breaks the grammar in use
FirstBreak(i) == Breaks(i) /\ \A j \in 1..(i - 1) : ~Breaks(j)

\* C13: an empty value and a value of spaces and tabs only parse, under both
\* grammars, to the directive set of a header that says nothing: MaxAge = -1,
\* SMaxAge = -1, no flag, no field name, no extension; and after a parse that
\* succeeds MaxAge (SMaxAge) is -1 exactly when the value has no max-age
\* (s-maxage) directive.
C13_BlankValueAndUnsetAges ==
  Parsed =>
    /\ (\A i \in DOMAIN header : header[i].name \in {" ", "\t"}) =>
         /\ cd.err = NoErr
         /\ ~cd.nil
         /\ cd.dir.MaxAge = -1
         /\ pc = "response" =>
              /\ cd.dir.SMaxAge = -1
              /\ ~cd.dir.NoStore /\ ~cd.dir.NoCachePresent
              /\ ~cd.dir.NoTransform /\ ~cd.dir.MustRevalidate
              /\ ~cd.dir.ProxyRevalidate /\ ~cd.dir.Public
              /\ ~cd.dir.PrivatePresent
              /\ cd.dir.NoCache = {} /\ cd.dir.Private = {}
              /\ cd.dir.Extensions = <<>>
         /\ pc = "request" =>
              /\ ~cd.dir.NoStore /\ ~cd.dir.NoCache /\ ~cd.dir.NoTransform
              /\ ~cd.dir.OnlyIfCached /\ ~cd.dir.MaxStaleSet
              /\ cd.dir.MaxStale = -1 /\ cd.dir.MinFresh = -1
              /\ cd.dir.Extensions = <<>>
    /\ cd.err = NoErr =>
         /\ cd.dir.MaxAge = -1 <=> ~Named("max-age")
         /\ pc = "response" => (cd.dir.SMaxAge = -1 <=> ~Named("s-maxage"))

\* a value of one space and one tab parsed as a response header, and a value
\* with max-age=0 parsed with success
C13_Witness ==
  \/ /\ pc = "response"
     /\ header = <<Separator(" "), Separator("\t")>>
     /\ cd.err = NoErr
     /\ cd.dir = NoResponseDirectives
  \/ /\ pc = "request"
     /\ header = <<Directive("max-age", NumArg(0)), Separator(" ")>>
     /\ cd.err = NoErr
     /\ cd.dir.MaxAge = 0

\* the field the response parser fills from the named age directive
AgeField(name) == IF name = "max-age" THEN cd.dir.MaxAge ELSE cd.dir.SMaxAge

FlagField(name) == IF name = "public" THEN cd.dir.Public ELSE cd.dir.ProxyRevalidate

\* the error the response parser reports for an argument on the named directive
NoArgsError(name) ==
  IF name = "public" THEN "ErrPublicNoArgs" ELSE "ErrProxyRevalidateNoArgs"

\* C15: in a response header value a public (proxy-revalidate) directive with
\* an argument makes the parse fail and return no directive set, with
\* ErrPublicNoArgs (ErrProxyRevalidateNoArgs) when nothing before it broke the
\* grammar; without an argument the directive is accepted and, when the value
\* as a whole parses, its flag is set.
C15_NoArgsDirectives ==
  pc = "response" =>
    \A name \in {"public", "proxy-revalidate"} :
      /\ \A i \in DirectivesSent :
           (header[i].name = name
              /\ header[i].arg.kind \in {"num", "tok", "quoted"}) =>
             /\ cd.err # NoErr
             /\ cd.nil
             /\ FirstBreak(i) => cd.err = NoArgsError(name)
      /\ (Named(name) /\ \A j \in DirectivesSent : ~BreaksResponse(j)) =>
           (cd.err = NoErr /\ ~cd.nil /\ FlagField(name))
      /\ (cd.err = NoErr /\ ~Named(name)) => ~FlagField(name)

\* public=Vary refused after a valid no-store, and a bare proxy-revalidate
\* accepted
C15_Witness ==
  /\ pc = "response"
  /\ \/ /\ header = <<Directive("no-store", NoArg), Separator(","),
                      Directive("public", TokenArg(<<"Vary">>))>>
        /\ cd.err = "ErrPublicNoArgs"
        /\ cd.nil
     \/ /\ header = <<Directive("proxy-revalidate", NoArg)>>
        /\ cd.err = NoErr
        /\ cd.dir.ProxyRevalidate

\* C16: a quoted string that is never closed, in any directive and after any
\* directives, makes the parse fail under both grammars and return no
\* directive set, never the directives parsed before it; the error is
\* ErrQuoteMismatch when the directives before it are valid. Any parse that
\* fails returns no directive set.
C16_FailureIsAtomic ==
  Parsed =>
    /\ cd.err # NoErr <=> cd.nil
    /\ cd.nil => cd.dir \in {NoResponseDirectives, NoRequestDirectives}
    /\ \A i \in DirectivesSent :
         header[i].arg.kind = "unterminated" =>
           /\ cd.err # NoErr
           /\ cd.nil
           /\ FirstBreak(i) => cd.err = "ErrQuoteMismatch"

\* no-store and max-age=1 parsed, then foo=" : nothing is returned
C16_Witness ==
  /\ pc = "response"
  /\ header = <<Directive("no-store", NoArg), Directive("max-age", NumArg(1)),
                Directive("foo", UnterminatedQuote)>>
  /\ cd.err = "ErrQuoteMismatch"
  /\ cd.nil

====
